---------------------------- MODULE Spec2Model ----------------------------
(***************************************************************************)
(* A model of EwenQuim/entropy: the bounded, always sorted registry of the *)
(* highest entropies (Entropies, NewEntropies, Entropies.Add) and the      *)
(* recursive, concurrent file walker that feeds it (readFile).             *)
(*                                                                         *)
(* Scores are float64 in the program.  The registry only compares them,    *)
(* so the model uses naturals: small integers for the scores offered by    *)
(* the callers of SpecAdd, and entropy in units of 1/10000 bit for the     *)
(* scores computed by readFile.  A score is never negative (entropy is a   *)
(* sum of terms -p*log2(p) with 0 < p <= 1).                               *)
(*                                                                         *)
(* Go slices are 0-based; TLA+ sequences are 1-based.  The locals i and j  *)
(* of Add keep their 0-based Go values and slot s of the program is        *)
(* Entropies[s + 1] here.                                                  *)
(***************************************************************************)
EXTENDS Naturals, Integers, Sequences, FiniteSets, Bags, TLC

VARIABLES
    Entropies,      \* es.Entropies: the slots, highest entropy first
    maxLength,      \* es.maxLength
    mu,             \* es.mu: 0 when unlocked, otherwise the holder
    lastWrites,     \* every value written to Entropies[maxLength-1].Entropy, in order
    panicked,       \* a goroutine has panicked: the process is dead
    pc,             \* per goroutine: where it is
    e,              \* per goroutine: the argument of its Add call
    i,              \* per goroutine: Add's insertion index (0-based)
    j,              \* per goroutine: position of the copy inside Add (0-based)
    floor,          \* per goroutine: the oldest write of lastWrites its unlocked read may see
    queue,          \* per caller of SpecAdd: the scores it has still to offer
    offered,        \* history: the bag of findings passed to Add so far
    fault,          \* the file system: per path, the call that fails on it ("none" if none)
    exploreHidden,  \* CLI option -include-hidden
    extensions,     \* CLI option -ext
    extensionsToIgnore, \* CLI option -ignore-ext
    minCharacters,  \* CLI option -min
    includeBinaryFiles, \* CLI option -binary
    discrete,       \* CLI option -discrete
    wg,             \* per readFile call on a directory: the counter of its sync.WaitGroup
    k,              \* per readFile call on a directory: position of the loop over dir
    lineNum,        \* per readFile call: the local i, the number of the line being read
    field,          \* per readFile call: position of the loop over strings.Fields(line)
    ret,            \* per readFile call: what it returned ("running" until it returns)
    stderr,         \* the errors printed to os.Stderr, in order
    did,            \* history: per readFile call, the operations it performed
    fileNames,      \* main: flag.Args(), the paths given on the command line
    arg,            \* main: position of the loop over fileNames
    stdout,         \* main: the findings printed to os.Stdout, in order
    input,          \* the argument of a call of isFileHidden, isFileIncluded or entropy
    output,         \* what that call returned
    locked          \* history: es.Entropies as the holder of the lock found it

\* Set at start-up and never written again.
cfgVars == <<maxLength, fault, exploreHidden, extensions, extensionsToIgnore,
             minCharacters, includeBinaryFiles, discrete, fileNames>>

\* The state of the walk.
walkVars == <<wg, k, lineNum, field, ret, stderr, did>>

\* The locals and the output of main.
mainVars == <<arg, stdout>>

\* A call of one of the functions without side effect.
callVars == <<input, output>>

vars == <<Entropies, mu, lastWrites, panicked, pc, e, i, j, floor,
          queue, offered, cfgVars, walkVars, mainVars, callVars, locked>>

(***************************************************************************)
(* Bounds of the model.                                                    *)
(***************************************************************************)
MaxK == 2           \* capacities 0..MaxK
NCallers == 3       \* concurrent callers of Add in SpecAdd

Callers == 1..NCallers
Scores == 0..NCallers   \* enough distinct scores to order every caller's offer, and 0

(***************************************************************************)
(* type Entropy struct and its zero value Entropy{}.                       *)
(***************************************************************************)
Entropy(score, file, num, text) ==
    [Entropy |-> score, File |-> file, LineNum |-> num, Line |-> text]

ZeroEntropy == Entropy(0, 0, 0, <<>>)

(***************************************************************************)
(* NewEntropies(n): make([]Entropy, n) is n zero values.                    *)
(***************************************************************************)
NewEntropiesBelowEveryScore(n) == [s \in 1..n |-> Entropy(-1, 0, 0, <<>>)]

NewEntropies(n) == [s \in 1..n |-> ZeroEntropy]

(***************************************************************************)
(* The comparison handed to slices.BinarySearchFunc, a is a slot and b is  *)
(* the finding to insert.                                                  *)
(***************************************************************************)
cmp(a, b) ==
    IF b.Entropy > a.Entropy THEN 1
    ELSE IF a.Entropy > b.Entropy THEN -1
    ELSE 0

(***************************************************************************)
(* slices.BinarySearchFunc(x, target, cmp): the bisection of the standard  *)
(* library, which returns the smallest index lo in 0..len(x) such that     *)
(* cmp(x[lo], target) >= 0 when x is ordered by cmp.                        *)
(***************************************************************************)
RECURSIVE BinarySearchLoop(_, _, _, _)
BinarySearchLoop(x, target, lo, hi) ==
    IF lo < hi
    THEN LET h == (lo + hi) \div 2
         IN  IF cmp(x[h + 1], target) < 0
             THEN BinarySearchLoop(x, target, h + 1, hi)
             ELSE BinarySearchLoop(x, target, lo, h)
    ELSE lo

BinarySearchFuncOffByOne(x, target) == BinarySearchLoop(x, target, 0, Len(x)) + 1

BinarySearchFunc(x, target) == BinarySearchLoop(x, target, 0, Len(x))

(***************************************************************************)
(* One element of copy(es.Entropies[i+1:], es.Entropies[i:]): slot t takes *)
(* the content of slot t-1.  The regions overlap and the destination is    *)
(* the higher one, so the copy runs from the last slot down.               *)
(***************************************************************************)
CopyElementGrow(es, t) == Append(es, es[t])

CopyElementNoShift(es, t) == es

CopyElementScoreOnly(es, t) == [es EXCEPT ![t + 1].Entropy = es[t].Entropy]

CopyElementToTheLeft(es, t) == [es EXCEPT ![t] = es[t + 1]]

CopyElement(es, t) == [es EXCEPT ![t + 1] = es[t]]

(***************************************************************************)
(* The values the unlocked read of line 63 may return to goroutine p.  The *)
(* read races with the writes of the lock holder.  Under the Go memory     *)
(* model a racy read of a word-sized location observes some write that     *)
(* does not happen after it and is not hidden by a later write that        *)
(* happens before it: any write from the last one p synchronised with      *)
(* (floor[p]) to the latest.                                               *)
(***************************************************************************)
UnlockedReadOfAnyValue(p) == Scores

UnlockedRead(p) == {lastWrites[w] : w \in floor[p]..Len(lastWrites)}

\* The record of a write to a slot: only writes to the last slot are kept.
NoteWrite(t) ==
    IF t = maxLength - 1
    THEN lastWrites' = Append(lastWrites, Entropies'[t + 1].Entropy)
    ELSE UNCHANGED lastWrites

(***************************************************************************)
(* Entropies.Add, one action per step.                                     *)
(***************************************************************************)
\* line 63: the unlocked check.  With maxLength = 0 the index is -1 and the
\* goroutine panics (index out of range), which ends the process.
AddFastReject(p) ==
    /\ ~panicked
    /\ pc[p] = "Add"
    /\ IF maxLength - 1 < 0 \/ maxLength - 1 >= Len(Entropies)
       THEN /\ panicked' = TRUE
            /\ pc' = [pc EXCEPT ![p] = "panic"]
       ELSE /\ \E v \in UnlockedRead(p) :
                 pc' = [pc EXCEPT ![p] = IF v >= e[p].Entropy
                                          THEN "AddReturn" ELSE "Lock"]
            /\ UNCHANGED panicked
    /\ UNCHANGED <<Entropies, mu, lastWrites, e, i, j, floor, queue, offered,
                   cfgVars, mainVars, callVars, locked, walkVars>>

AddLockWithoutWaiting(p) ==
    /\ ~panicked
    /\ pc[p] = "Lock"
    /\ mu' = p
    /\ locked' = Entropies
    /\ floor' = [floor EXCEPT ![p] = Len(lastWrites)]
    /\ pc' = [pc EXCEPT ![p] = "Recheck"]
    /\ UNCHANGED <<Entropies, lastWrites, panicked, e, i, j, queue, offered,
                   cfgVars, mainVars, callVars, walkVars>>

\* line 67: es.mu.Lock().  Every write made under the lock so far happens
\* before this acquisition.
AddLock(p) ==
    /\ ~panicked
    /\ pc[p] = "Lock"
    /\ mu = 0
    /\ mu' = p
    /\ locked' = Entropies
    /\ floor' = [floor EXCEPT ![p] = Len(lastWrites)]
    /\ pc' = [pc EXCEPT ![p] = "Recheck"]
    /\ UNCHANGED <<Entropies, lastWrites, panicked, e, i, j, queue, offered,
                   cfgVars, mainVars, callVars, walkVars>>

AddRecheckSkipped(p) ==
    /\ ~panicked
    /\ pc[p] = "Recheck"
    /\ i' = [i EXCEPT ![p] = BinarySearchFunc(Entropies, e[p])]
    /\ j' = [j EXCEPT ![p] = Len(Entropies) - 1]
    /\ pc' = [pc EXCEPT ![p] = IF i'[p] + 1 > Len(Entropies)
                                THEN "panic" ELSE "Copy"]
    /\ panicked' = (i'[p] + 1 > Len(Entropies))
    /\ UNCHANGED <<Entropies, mu, lastWrites, e, floor, queue, offered, cfgVars,
                   mainVars, callVars, locked, walkVars>>

AddRecheckKeepsLock(p) ==
    /\ ~panicked
    /\ pc[p] = "Recheck"
    /\ IF Entropies[Len(Entropies)].Entropy >= e[p].Entropy
       THEN /\ pc' = [pc EXCEPT ![p] = "AddReturn"]
            /\ UNCHANGED <<i, j, panicked>>
       ELSE /\ i' = [i EXCEPT ![p] = BinarySearchFunc(Entropies, e[p])]
            /\ j' = [j EXCEPT ![p] = Len(Entropies) - 1]
            /\ pc' = [pc EXCEPT ![p] = IF i'[p] + 1 > Len(Entropies)
                                        THEN "panic" ELSE "Copy"]
            /\ panicked' = (i'[p] + 1 > Len(Entropies))
    /\ UNCHANGED <<Entropies, mu, lastWrites, e, floor, queue, offered, cfgVars,
                   mainVars, callVars, locked, walkVars>>

\* lines 70-82: the check again, under the lock, then the search of the
\* insertion index.  The deferred Unlock runs on the early return.
AddRecheck(p) ==
    /\ ~panicked
    /\ pc[p] = "Recheck"
    /\ IF Entropies[Len(Entropies)].Entropy >= e[p].Entropy
       THEN /\ mu' = 0
            /\ locked' = <<>>
            /\ pc' = [pc EXCEPT ![p] = "AddReturn"]
            /\ UNCHANGED <<i, j, panicked>>
       ELSE /\ i' = [i EXCEPT ![p] = BinarySearchFunc(Entropies, e[p])]
            /\ j' = [j EXCEPT ![p] = Len(Entropies) - 1]
            \* es.Entropies[i+1:] panics when i+1 > len(es.Entropies)
            /\ pc' = [pc EXCEPT ![p] = IF i'[p] + 1 > Len(Entropies)
                                        THEN "panic" ELSE "Copy"]
            /\ panicked' = (i'[p] + 1 > Len(Entropies))
            /\ UNCHANGED <<mu, locked>>
    /\ UNCHANGED <<Entropies, lastWrites, e, floor, queue, offered, cfgVars,
                   mainVars, callVars, walkVars>>

\* line 84: copy(es.Entropies[i+1:], es.Entropies[i:]), one element per step.
AddCopy(p) ==
    /\ ~panicked
    /\ pc[p] = "Copy"
    /\ j[p] > i[p]
    /\ Entropies' = CopyElement(Entropies, j[p])
    /\ NoteWrite(j[p])
    /\ j' = [j EXCEPT ![p] = j[p] - 1]
    /\ UNCHANGED <<mu, panicked, pc, e, i, floor, queue, offered, cfgVars, mainVars, callVars, locked,
                   walkVars>>

\* line 85: es.Entropies[i] = e, then the deferred es.mu.Unlock().  The
\* writes the goroutine made itself happen before what it does next.
AddStore(p) ==
    /\ ~panicked
    /\ pc[p] = "Copy"
    /\ j[p] <= i[p]
    /\ Entropies' = [Entropies EXCEPT ![i[p] + 1] = e[p]]
    /\ NoteWrite(i[p])
    /\ floor' = [floor EXCEPT ![p] = Len(lastWrites')]
    /\ mu' = 0
    /\ locked' = <<>>
    /\ pc' = [pc EXCEPT ![p] = "AddReturn"]
    /\ i' = [i EXCEPT ![p] = 0]      \* the locals die with the call
    /\ j' = [j EXCEPT ![p] = 0]
    /\ UNCHANGED <<panicked, e, queue, offered, cfgVars, mainVars, callVars,
                   walkVars>>

Add(p) ==
    \/ AddFastReject(p)
    \/ AddLock(p)
    \/ AddRecheck(p)
    \/ AddCopy(p)
    \/ AddStore(p)

(***************************************************************************)
(* The callers of TestEntropies: each goroutine passes its findings to     *)
(* res.Add, one after the other (one goroutine with all the values in the  *)
(* synchronous test, one goroutine per value in the asynchronous one).     *)
(***************************************************************************)
CallAdd(p) ==
    /\ ~panicked
    /\ pc[p] = "call"
    /\ queue[p] # <<>>
    /\ e' = [e EXCEPT ![p] = Entropy(Head(queue[p]), p, 0, <<>>)]
    /\ offered' = offered (+) SetToBag({e'[p]})
    /\ queue' = [queue EXCEPT ![p] = Tail(queue[p])]
    /\ pc' = [pc EXCEPT ![p] = "Add"]
    /\ UNCHANGED <<Entropies, mu, lastWrites, panicked, i, j, floor, cfgVars, mainVars, callVars, locked,
                   walkVars>>

AddReturned(p) ==
    /\ ~panicked
    /\ pc[p] = "AddReturn"
    /\ pc' = [pc EXCEPT ![p] = IF queue[p] = <<>> THEN "done" ELSE "call"]
    /\ UNCHANGED <<Entropies, mu, lastWrites, panicked, e, i, j, floor,
                   queue, offered, cfgVars, mainVars, callVars, locked, walkVars>>

(***************************************************************************)
(* Strings are sequences of code points, a code point being a string: a    *)
(* letter for an ASCII character, one byte in UTF-8, and "U+00E9" for the  *)
(* letter e with an acute accent, two bytes in UTF-8.                      *)
(***************************************************************************)
HasPrefix(str, prefix) ==
    /\ Len(str) >= Len(prefix)
    /\ SubSeq(str, 1, Len(prefix)) = prefix

HasSuffix(str, suffix) ==
    /\ Len(str) >= Len(suffix)
    /\ SubSeq(str, Len(str) - Len(suffix) + 1, Len(str)) = suffix

TrimPrefix(str, prefix) ==
    IF HasPrefix(str, prefix)
    THEN SubSeq(str, Len(prefix) + 1, Len(str))
    ELSE str

\* The number of bytes of the UTF-8 encoding of code point c.
Width(c) == IF c = "U+00E9" THEN 2 ELSE 1

\* len(text): the length of a Go string is its number of bytes.
ByteLen(text) ==
    Len(text) + Cardinality({x \in 1..Len(text) : Width(text[x]) = 2})

(***************************************************************************)
(* The file system the walk runs on: the tree                              *)
(*     .           (1, directory)                                          *)
(*     ./.git      (3, directory, hidden)                                  *)
(*     ./.git/k.go (5, file, first line is not valid UTF-8)                *)
(*     ./a.go      (2, file, second line is not valid UTF-8)               *)
(*     ./b.js      (4, file, second line is longer than the scanner takes) *)
(* One path at most fails, at stat (a dangling symlink), at ReadDir or at  *)
(* Open (a permission, a file deleted meanwhile, too many open files).     *)
(***************************************************************************)
Nodes == {1, 2, 3, 4, 5}
Root == 1

Name(n) ==
    CASE n = 1 -> <<".">>
      [] n = 2 -> <<"a", ".", "g", "o">>
      [] n = 3 -> <<".", "g", "i", "t">>
      [] n = 4 -> <<"b", ".", "j", "s">>
      [] n = 5 -> <<"k", ".", "g", "o">>

IsDir(n) == n \in {1, 3}

\* os.ReadDir returns the entries sorted by file name.
Dir(n) ==
    CASE n = 1 -> <<3, 2, 4>>
      [] n = 3 -> <<5>>
      [] OTHER -> <<>>

SeqRange(q) == {q[x] : x \in 1..Len(q)}

Parent(c) == CHOOSE n \in Nodes : c \in SeqRange(Dir(n))

\* The paths below n, and n with them.
RECURSIVE Descendants(_)
Descendants(n) ==
    SeqRange(Dir(n)) \cup UNION {Descendants(c) : c \in SeqRange(Dir(n))}

Subtree(n) == {n} \cup Descendants(n)

\* A line of a file: whether the trimmed line is valid UTF-8, strings.Fields
\* of it, and whether it fits the buffer of a bufio.Scanner.  A Scanner made
\* by bufio.NewScanner takes lines of less than bufio.MaxScanTokenSize
\* (64 * 1024) bytes: on a longer one Scan() returns false, as it does at
\* the end of the file and on a read error.
Line(valid, fields) == [valid |-> valid, fields |-> fields, long |-> FALSE]

LongLine(valid, fields) == [valid |-> valid, fields |-> fields, long |-> TRUE]

Lines(n) ==
    CASE n = 2 -> << Line(TRUE, << <<"a", "b">>, <<"a">> >>),
                     Line(FALSE, << <<"a", "b", "c">> >>) >>
      [] n = 4 -> << Line(TRUE, << <<"a", "a">>, <<"b", "a">> >>),
                     LongLine(TRUE, << <<"a", "b", "c", "d">> >>) >>
      [] n = 5 -> << Line(FALSE, << <<"a", "b", "c", "d">> >>),
                     Line(TRUE, << <<"a", "b">> >>) >>
      [] OTHER -> <<>>     \* reading a directory fails: Scan() is false at once

Faults ==
    {f \in [Nodes -> {"none", "stat", "list", "open"}] :
        /\ Cardinality({n \in Nodes : f[n] # "none"}) <= 1
        /\ \A n \in Nodes : f[n] = "list" => IsDir(n)}

\* The values of -ext and -ignore-ext the walk is run with.
ExtensionFlags ==
    { <<  <<>>,  <<>>  >>,
      <<  << <<"g", "o">> >>,  <<>>  >>,
      <<  <<>>,  << <<".", "j", "s">> >>  >> }

MaxMinCharacters == 2   \* -min is 1..MaxMinCharacters

(***************************************************************************)
(* func isFileHidden(filename string) bool                                 *)
(***************************************************************************)
isFileHiddenOnlyNodeModules(filename) ==
    filename = <<"n", "o", "d", "e", "_", "m", "o", "d", "u", "l", "e", "s">>

isFileHiddenNoTrim(filename) ==
    IF filename = <<".">>
    THEN FALSE
    ELSE \/ HasPrefix(filename, <<".">>)
         \/ filename = <<"n", "o", "d", "e", "_", "m", "o", "d", "u", "l", "e", "s">>

isFileHidden(filename) ==
    IF filename = <<".">>
    THEN FALSE
    ELSE LET trimmed == TrimPrefix(filename, <<".", "/">>)
         IN  \/ HasPrefix(trimmed, <<".">>)
             \/ trimmed = <<"n", "o", "d", "e", "_", "m", "o", "d", "u", "l", "e", "s">>

(***************************************************************************)
(* func isFileIncluded(filename string) bool                               *)
(***************************************************************************)
isFileIncludedAllowFirst(filename) ==
    IF Len(extensions) = 0
    THEN ~\E x \in 1..Len(extensionsToIgnore) : HasSuffix(filename, extensionsToIgnore[x])
    ELSE \E x \in 1..Len(extensions) : HasSuffix(filename, extensions[x])

isFileIncluded(filename) ==
    IF \E x \in 1..Len(extensionsToIgnore) : HasSuffix(filename, extensionsToIgnore[x])
    THEN FALSE
    ELSE IF Len(extensions) = 0
    THEN TRUE
    ELSE \E x \in 1..Len(extensions) : HasSuffix(filename, extensions[x])

(***************************************************************************)
(* float64.  The values entropy computes are not negative and are below 4. *)
(* A value is written <<hi, lo>> and is (hi * Limb + lo) * 2^-56, with     *)
(* lo < Limb: every float64 from 2^-4 to 4 is such a number, and so is 0.  *)
(***************************************************************************)
Limb == 2^28

\* The distance between two consecutive float64 around a value, in units of
\* 2^-56: a float64 has 53 significant bits.
Ulp(hi) ==
    IF hi >= 2^29 THEN 32
    ELSE IF hi >= 2^28 THEN 16
    ELSE IF hi >= 2^27 THEN 8
    ELSE IF hi >= 2^26 THEN 4
    ELSE IF hi >= 2^25 THEN 2
    ELSE 1

\* x + y in float64: the exact sum, rounded to the nearest float64, and to
\* the one with an even last bit when it is half-way.
FAdd(x, y) ==
    LET lo0 == x[2] + y[2]
        hi0 == x[1] + y[1] + (lo0 \div Limb)
        lo1 == lo0 % Limb
        g == Ulp(hi0)
        r == lo1 % g
        down == lo1 - r
        up == (r * 2 > g) \/ (r * 2 = g /\ (down \div g) % 2 = 1)
        lo2 == IF up THEN down + g ELSE down
    IN  <<hi0 + (lo2 \div Limb), lo2 % Limb>>

\* The float64 x to the nearest 1/10000.
ToScore(x) ==
    LET h1 == x[1] \div 2^15
        h0 == x[1] % 2^15
        a == h1 * 10000
    IN  (a \div 2^13) + (((a % 2^13) * 2^15 + h0 * 10000 + 2^27) \div 2^28)

(***************************************************************************)
(* func entropy(text string) float64                                       *)
(*                                                                         *)
(* NegResLog2Res[n][c] is the float64 -(res * math.Log2(res)) for          *)
(* res := float64(c) / float64(n), the term that line 236 takes off the    *)
(* sum for a code point met c times in a text of n bytes.                  *)
(***************************************************************************)
NegResLog2Res ==
    <<
      << <<0, 0>> >>,
      << <<134217728, 0>>, <<0, 0>> >>,
      << <<141820043, 234790104>>, <<104683117, 22187784>>, <<0, 0>> >>,
      << <<134217728, 0>>, <<134217728, 0>>, <<83558085, 75702040>>,
         <<0, 0>> >>,
      << <<124657565, 104705952>>, <<141940948, 102037720>>,
         <<118696617, 52556952>>, <<69133531, 257762540>>, <<0, 0>> >>,
      << <<115649264, 162134292>>, <<141820043, 234790104>>,
         <<134217728, 0>>, <<104683117, 22187784>>,
         <<58839800, 150700448>>, <<0, 0>> >>,
      << <<107656228, 101866552>>, <<138616612, 50341416>>,
         <<140628628, 195466288>>, <<123841535, 62334920>>,
         <<93075551, 58687092>>, <<51169723, 199192962>>, <<0, 0>> >>,
      << <<100663296, 0>>, <<134217728, 0>>, <<142442338, 172068744>>,
         <<134217728, 0>>, <<113761588, 41892648>>,
         <<83558085, 75702040>>, <<45248673, 47155992>> >>,
      << <<94546695, 246005220>>, <<129441068, 74444180>>,
         <<141820043, 234790104>>, <<139577489, 119062192>>,
         <<126462464, 163696028>>, <<104683117, 22187784>>,
         <<75698516, 242818732>> >>,
      << <<89172328, 79196524>>, <<124657565, 104705952>>,
         <<139878945, 106809112>>, <<141940948, 102037720>>,
         <<134217728, 0>>, <<118696617, 52556952>>,
         <<96690779, 1542452>> >>,
      << <<84421282, 50019800>>, <<120036117, 222055716>>,
         <<137229265, 55571296>>, <<142459342, 151272752>>,
         <<138793762, 85340584>>, <<128039190, 208755484>>,
         <<111389412, 140401624>> >>,
      << <<80194253, 170545632>>, <<115649264, 162134292>>,
         <<134217728, 0>>, <<141820043, 234790104>>,
         <<141268006, 254307200>>, <<134217728, 0>>,
         <<121763509, 151514928>> >>,
      << <<76409940, 64831616>>, <<111522118, 5769940>>,
         <<131046713, 114543376>>, <<140448711, 32188760>>,
         <<142323613, 246693752>>, <<138200139, 125842336>>,
         <<129088413, 49213860>> >>,
      << <<73002075, 89281200>>, <<107656228, 101866552>>,
         <<127836197, 212776912>>, <<138616612, 50341416>>,
         <<142407581, 86865432>>, <<140628628, 195466288>>,
         <<134217728, 0>> >>
    >>

\* The same term in units of 1/10000 bit.
NegPLog2P(c, n) == ToScore(NegResLog2Res[n][c])

RECURSIVE SumOver(_, _)
SumOver(set, f) ==
    IF set = {}
    THEN 0
    ELSE LET x == CHOOSE y \in set : TRUE
         IN  f[x] + SumOver(set \ {x}, f)

\* lines 224-227: the map from the code points of text to their counts
UniqueCharacters(text) ==
    [r \in SeqRange(text) |-> Cardinality({x \in 1..Len(text) : text[x] = r})]

\* The score in units of 1/10000 bit, as the walk passes it to the registry,
\* which only compares scores.
entropy(text) ==
    LET uniqueCharacters == UniqueCharacters(text)
    IN  SumOver(DOMAIN uniqueCharacters,
                [r \in DOMAIN uniqueCharacters |->
                    NegPLog2P(uniqueCharacters[r], ByteLen(text))])

\* The orders in which a range loop may go through the keys of a map: Go
\* leaves the order unspecified, and it changes from one loop to the next.
RECURSIVE Orders(_)
Orders(set) ==
    IF set = {}
    THEN {<<>>}
    ELSE UNION {{<<x>> \o o : o \in Orders(set \ {x})} : x \in set}

\* lines 229-239: the float64 returned when the loop over uniqueCharacters
\* meets the code points in the given order.
RECURSIVE SumInOrder(_, _, _)
SumInOrder(sum, order, terms) ==
    IF order = <<>>
    THEN sum
    ELSE SumInOrder(FAdd(sum, terms[Head(order)]), Tail(order), terms)

entropyFloat64(text, order) ==
    LET uniqueCharacters == UniqueCharacters(text)
    IN  SumInOrder(<<0, 0>>, order,
                   [r \in DOMAIN uniqueCharacters |->
                       NegResLog2Res[ByteLen(text)][uniqueCharacters[r]]])

(***************************************************************************)
(* What a readFile call returns.                                           *)
(***************************************************************************)
Running == [kind |-> "running", op |-> "", path |-> 0]
Nil == [kind |-> "nil", op |-> "", path |-> 0]
Err(op, n) == [kind |-> "err", op |-> op, path |-> n]

\* return v, from the readFile call on n
ReturnFirstError(n, v) ==
    /\ ret' = [ret EXCEPT ![n] =
                  IF \E c \in SeqRange(Dir(n)) : ret[c].kind = "err"
                  THEN ret[CHOOSE c \in SeqRange(Dir(n)) : ret[c].kind = "err"]
                  ELSE v]
    /\ pc' = [pc EXCEPT ![n] = "returned"]

Return(n, v) ==
    /\ ret' = [ret EXCEPT ![n] = v]
    /\ pc' = [pc EXCEPT ![n] = "returned"]

Did(n, op) == did' = [did EXCEPT ![n] = did[n] \cup {op}]

(***************************************************************************)
(* func readFile(entropies *Entropies, fileName string) error, one action  *)
(* per step of the call on path n.                                         *)
(***************************************************************************)
\* lines 156-169: os.Stat, then the two filters, then the kind of the entry.
Stat(n) ==
    /\ ~panicked
    /\ pc[n] = "readFile"
    /\ Did(n, "stat")
    /\ IF fault[n] = "stat"
       THEN Return(n, Err("stat", n))
       ELSE IF isFileHidden(Name(n)) /\ ~exploreHidden
       THEN Return(n, Nil)
       ELSE IF ~isFileIncluded(Name(n))
       THEN Return(n, Nil)
       ELSE /\ pc' = [pc EXCEPT ![n] = IF IsDir(n) THEN "ReadDir" ELSE "Open"]
            /\ UNCHANGED ret
    /\ UNCHANGED <<Entropies, mu, lastWrites, panicked, e, i, j, floor, queue,
                   offered, cfgVars, mainVars, callVars, locked, wg, k, lineNum, field, stderr>>

\* lines 170-175: os.ReadDir
ReadDir(n) ==
    /\ ~panicked
    /\ pc[n] = "ReadDir"
    /\ Did(n, "list")
    /\ IF fault[n] = "list"
       THEN /\ Return(n, Err("list", n))
            /\ UNCHANGED k
       ELSE /\ pc' = [pc EXCEPT ![n] = "range"]
            /\ k' = [k EXCEPT ![n] = 1]
            /\ UNCHANGED ret
    /\ UNCHANGED <<Entropies, mu, lastWrites, panicked, e, i, j, floor, queue,
                   offered, cfgVars, mainVars, callVars, locked, wg, lineNum, field, stderr>>

\* lines 176-185: one turn of the loop: wg.Add(1) and the go statement, which
\* starts the readFile call on the entry.  What the parent did happens before
\* what the new goroutine does.
Go(n) ==
    /\ ~panicked
    /\ pc[n] = "range"
    /\ k[n] <= Len(Dir(n))
    /\ LET file == Dir(n)[k[n]]
       IN  /\ wg' = [wg EXCEPT ![n] = wg[n] + 1]
           /\ pc' = [pc EXCEPT ![file] = "readFile"]
           /\ floor' = [floor EXCEPT ![file] = floor[n]]
    /\ k' = [k EXCEPT ![n] = k[n] + 1]
    /\ Did(n, "go")
    /\ UNCHANGED <<Entropies, mu, lastWrites, panicked, e, i, j, queue,
                   offered, cfgVars, mainVars, callVars, locked, lineNum, field, ret, stderr>>

\* lines 179-183: the end of the goroutine started for entry c: the error of
\* its readFile call is printed, then the deferred wg.Done() runs.
GoroutineEnd(c) ==
    /\ ~panicked
    /\ c \notin SeqRange(fileNames)
    /\ pc[c] = "returned"
    /\ stderr' = IF ret[c].kind = "err" THEN Append(stderr, ret[c]) ELSE stderr
    /\ wg' = [wg EXCEPT ![Parent(c)] = wg[Parent(c)] - 1]
    /\ pc' = [pc EXCEPT ![c] = "done"]
    /\ UNCHANGED <<Entropies, mu, lastWrites, panicked, e, i, j, floor, queue,
                   offered, cfgVars, mainVars, callVars, locked, k, lineNum, field, ret, did>>

WaitWithoutBarrier(n) ==
    /\ ~panicked
    /\ pc[n] = "range"
    /\ k[n] > Len(Dir(n))
    /\ pc' = [pc EXCEPT ![n] = "Open"]
    /\ UNCHANGED <<Entropies, mu, lastWrites, panicked, e, i, j, floor, queue,
                   offered, cfgVars, mainVars, callVars, locked, walkVars>>

\* line 187: wg.Wait() returns when the counter is zero
Wait(n) ==
    /\ ~panicked
    /\ pc[n] = "range"
    /\ k[n] > Len(Dir(n))
    /\ wg[n] = 0
    /\ pc' = [pc EXCEPT ![n] = "Open"]
    /\ UNCHANGED <<Entropies, mu, lastWrites, panicked, e, i, j, floor, queue,
                   offered, cfgVars, mainVars, callVars, locked, walkVars>>

OpenIgnoringError(n) ==
    /\ ~panicked
    /\ pc[n] = "Open"
    /\ Did(n, "open")
    /\ pc' = [pc EXCEPT ![n] = "Scan"]
    /\ lineNum' = [lineNum EXCEPT ![n] = 0]
    /\ UNCHANGED <<Entropies, mu, lastWrites, panicked, e, i, j, floor, queue,
                   offered, cfgVars, mainVars, callVars, locked, wg, k, field, ret, stderr>>

\* lines 190-197: os.Open, of a file or of the directory just walked
Open(n) ==
    /\ ~panicked
    /\ pc[n] = "Open"
    /\ Did(n, "open")
    /\ IF fault[n] = "open"
       THEN /\ Return(n, Err("open", n))
            /\ UNCHANGED lineNum
       ELSE /\ pc' = [pc EXCEPT ![n] = "Scan"]
            /\ lineNum' = [lineNum EXCEPT ![n] = 0]
            /\ UNCHANGED ret
    /\ UNCHANGED <<Entropies, mu, lastWrites, panicked, e, i, j, floor, queue,
                   offered, cfgVars, mainVars, callVars, locked, wg, k, field, stderr>>

ScanChecksEveryLine(n) ==
    /\ ~panicked
    /\ pc[n] = "Scan"
    /\ IF lineNum[n] < Len(Lines(n)) /\ ~Lines(n)[lineNum[n] + 1].long
       THEN LET line == Lines(n)[lineNum[n] + 1]
            IN  /\ lineNum' = [lineNum EXCEPT ![n] = lineNum[n] + 1]
                /\ IF ~includeBinaryFiles /\ ~line.valid
                   THEN /\ Return(n, Nil)
                        /\ UNCHANGED field
                   ELSE /\ pc' = [pc EXCEPT ![n] = "Fields"]
                        /\ field' = [field EXCEPT ![n] = 1]
                        /\ UNCHANGED ret
       ELSE /\ Return(n, Nil)
            /\ UNCHANGED <<lineNum, field>>
    /\ UNCHANGED <<Entropies, mu, lastWrites, panicked, e, i, j, floor, queue,
                   offered, cfgVars, mainVars, callVars, locked, wg, k, stderr, did>>

\* lines 198-204 and 220: scanner.Scan(), the line counter and the check of
\* the first line; the call returns nil when Scan() is false (the end of the
\* file, or a line too long for the scanner: scanner.Err() is not looked
\* at) and when the file is taken for a binary file.
Scan(n) ==
    /\ ~panicked
    /\ pc[n] = "Scan"
    /\ IF lineNum[n] < Len(Lines(n)) /\ ~Lines(n)[lineNum[n] + 1].long
       THEN LET line == Lines(n)[lineNum[n] + 1]
            IN  /\ lineNum' = [lineNum EXCEPT ![n] = lineNum[n] + 1]
                /\ IF lineNum'[n] = 1 /\ ~includeBinaryFiles /\ ~line.valid
                   THEN /\ Return(n, Nil)
                        /\ UNCHANGED field
                   ELSE /\ pc' = [pc EXCEPT ![n] = "Fields"]
                        /\ field' = [field EXCEPT ![n] = 1]
                        /\ UNCHANGED ret
       ELSE /\ Return(n, Nil)
            /\ UNCHANGED <<lineNum, field>>
    /\ UNCHANGED <<Entropies, mu, lastWrites, panicked, e, i, j, floor, queue,
                   offered, cfgVars, mainVars, callVars, locked, wg, k, stderr, did>>

\* lines 206-217: one turn of the loop over the fields of the line: a field
\* long enough is scored and passed to entropies.Add.
Fields(n) ==
    /\ ~panicked
    /\ pc[n] = "Fields"
    /\ LET fields == Lines(n)[lineNum[n]].fields
       IN  IF field[n] <= Len(fields)
           THEN LET text == fields[field[n]]
                IN  /\ field' = [field EXCEPT ![n] = field[n] + 1]
                    /\ IF ByteLen(text) < minCharacters
                       THEN UNCHANGED <<pc, e, offered, did>>
                       ELSE /\ e' = [e EXCEPT ![n] =
                                        Entropy(entropy(text), n, lineNum[n], text)]
                            /\ offered' = offered (+) SetToBag({e'[n]})
                            /\ pc' = [pc EXCEPT ![n] = "Add"]
                            /\ Did(n, "add")
           ELSE /\ pc' = [pc EXCEPT ![n] = "Scan"]
                /\ UNCHANGED <<field, e, offered, did>>
    /\ UNCHANGED <<Entropies, mu, lastWrites, panicked, i, j, floor, queue,
                   cfgVars, mainVars, callVars, locked, wg, k, lineNum, ret, stderr>>

\* entropies.Add returns into the loop over the fields
AddDone(n) ==
    /\ ~panicked
    /\ pc[n] = "AddReturn"
    /\ pc' = [pc EXCEPT ![n] = "Fields"]
    /\ UNCHANGED <<Entropies, mu, lastWrites, panicked, e, i, j, floor, queue,
                   offered, cfgVars, mainVars, callVars, locked, walkVars>>

readFile(n) ==
    \/ Stat(n)
    \/ ReadDir(n)
    \/ Go(n)
    \/ GoroutineEnd(n)
    \/ Wait(n)
    \/ Open(n)
    \/ Scan(n)
    \/ Fields(n)
    \/ AddDone(n)

(***************************************************************************)
(* Spec: one readFile call on the root of the tree, with a registry made   *)
(* by NewEntropies(resultCount), as main and the tests make it.            *)
(***************************************************************************)
Init ==
    /\ maxLength \in 0..MaxK
    /\ Entropies = NewEntropies(maxLength)
    /\ mu = 0
    /\ lastWrites = <<ZeroEntropy.Entropy>>
    /\ panicked = FALSE
    /\ fault \in Faults
    /\ exploreHidden \in BOOLEAN
    /\ \E x \in ExtensionFlags : extensions = x[1] /\ extensionsToIgnore = x[2]
    /\ minCharacters \in 1..MaxMinCharacters
    /\ includeBinaryFiles \in BOOLEAN
    /\ pc = [n \in Nodes |-> IF n = Root THEN "readFile" ELSE "idle"]
    /\ e = [n \in Nodes |-> ZeroEntropy]
    /\ i = [n \in Nodes |-> 0]
    /\ j = [n \in Nodes |-> 0]
    /\ floor = [n \in Nodes |-> 1]
    /\ queue = <<>>
    /\ offered = EmptyBag
    /\ wg = [n \in Nodes |-> 0]
    /\ k = [n \in Nodes |-> 0]
    /\ lineNum = [n \in Nodes |-> 0]
    /\ field = [n \in Nodes |-> 0]
    /\ ret = [n \in Nodes |-> Running]
    /\ stderr = <<>>
    /\ did = [n \in Nodes |-> {}]
    /\ discrete = FALSE
    /\ fileNames = <<Root>>
    /\ arg = 1
    /\ stdout = <<>>
    /\ locked = <<>>
    /\ input = <<>>
    /\ output = <<>>

Next == \E n \in Nodes : readFile(n) \/ Add(n)

Spec == Init /\ [][Next]_vars

(***************************************************************************)
(* SpecFair: the same walk under a scheduler that does not stop: as long   *)
(* as some goroutine can take a step (it is not waiting for the lock or at *)
(* a wg.Wait()), one does.  This is the least the Go scheduler gives; the  *)
(* walk is the one of Spec with every entry of the tree explored and no    *)
(* filter on the suffix.                                                   *)
(***************************************************************************)
InitFair ==
    /\ Init
    /\ exploreHidden
    /\ extensions = <<>>
    /\ extensionsToIgnore = <<>>
    /\ minCharacters = 1

Fairness == WF_vars(Next)

SpecFair == InitFair /\ [][Next]_vars /\ Fairness

(***************************************************************************)
(* func main(), after the flags are parsed: the loop over the paths of the *)
(* command line, which calls readFile on one path after the other with the *)
(* one registry made before the loop, then the loop that prints.  Main is  *)
(* the goroutine of main; the readFile call on a path of the command line  *)
(* runs on it.                                                             *)
(***************************************************************************)
Main == 0

\* lines 128-130: one turn of the loop, up to the call of readFile
MainCall ==
    /\ ~panicked
    /\ pc[Main] = "range"
    /\ arg <= Len(fileNames)
    /\ pc' = [pc EXCEPT ![Main] = "call", ![fileNames[arg]] = "readFile"]
    /\ UNCHANGED <<Entropies, mu, lastWrites, panicked, e, i, j, floor, queue,
                   offered, cfgVars, walkVars, mainVars, callVars, locked>>

\* lines 130-133: readFile has returned: its error, if any, is printed
MainCallReturned ==
    /\ ~panicked
    /\ pc[Main] = "call"
    /\ pc[fileNames[arg]] = "returned"
    /\ stderr' = IF ret[fileNames[arg]].kind = "err"
                 THEN Append(stderr, ret[fileNames[arg]])
                 ELSE stderr
    /\ arg' = arg + 1
    /\ pc' = [pc EXCEPT ![Main] = "range", ![fileNames[arg]] = "done"]
    /\ UNCHANGED <<Entropies, mu, lastWrites, panicked, e, i, j, floor, queue,
                   offered, cfgVars, wg, k, lineNum, field, ret, did, stdout,
                   callVars, locked>>

\* lines 144-152: what the loop over entropies.Entropies prints: main returns
\* at the first slot that holds the zero value.
RECURSIVE Printed(_)
Printed(es) ==
    IF es = <<>> \/ Head(es) = ZeroEntropy
    THEN <<>>
    ELSE <<IF discrete THEN [Head(es) EXCEPT !.Line = <<>>] ELSE Head(es)>>
             \o Printed(Tail(es))

MainPrint ==
    /\ ~panicked
    /\ pc[Main] = "range"
    /\ arg > Len(fileNames)
    /\ stdout' = Printed(Entropies)
    /\ pc' = [pc EXCEPT ![Main] = "exit"]
    /\ UNCHANGED <<Entropies, mu, lastWrites, panicked, e, i, j, floor, queue,
                   offered, cfgVars, walkVars, arg, callVars, locked>>

main == MainCall \/ MainCallReturned \/ MainPrint

(***************************************************************************)
(* SpecMain: main on a command line of up to MaxArgs paths of the tree.    *)
(***************************************************************************)
MaxArgs == 2

\* The paths main may be given: files and directories of the tree, none
\* twice and none inside another.
RECURSIVE ArgLists(_)
ArgLists(n) ==
    IF n = 0
    THEN {<<>>}
    ELSE ArgLists(n - 1) \cup
         {Append(a, x) : a \in {b \in ArgLists(n - 1) : Len(b) = n - 1},
                         x \in Nodes \ {Root}}

InitMain ==
    /\ maxLength \in 0..MaxK
    /\ Entropies = NewEntropies(maxLength)
    /\ mu = 0
    /\ lastWrites = <<ZeroEntropy.Entropy>>
    /\ panicked = FALSE
    /\ fault \in Faults
    /\ exploreHidden \in BOOLEAN
    /\ extensions = <<>>
    /\ extensionsToIgnore = <<>>
    /\ minCharacters = 1
    /\ includeBinaryFiles = FALSE
    /\ discrete \in BOOLEAN
    \* lines 123-127: no path given, main scans the current folder
    /\ \E a \in ArgLists(MaxArgs) :
           /\ \A x, y \in 1..Len(a) :
                  x # y => a[x] \notin Subtree(a[y])
           /\ fileNames = IF Len(a) = 0 THEN <<Root>> ELSE a
    /\ arg = 1
    /\ stdout = <<>>
    /\ locked = <<>>
    /\ pc = [n \in Nodes \cup {Main} |-> IF n = Main THEN "range" ELSE "idle"]
    /\ e = [n \in Nodes |-> ZeroEntropy]
    /\ i = [n \in Nodes |-> 0]
    /\ j = [n \in Nodes |-> 0]
    /\ floor = [n \in Nodes |-> 1]
    /\ queue = <<>>
    /\ offered = EmptyBag
    /\ wg = [n \in Nodes |-> 0]
    /\ k = [n \in Nodes |-> 0]
    /\ lineNum = [n \in Nodes |-> 0]
    /\ field = [n \in Nodes |-> 0]
    /\ ret = [n \in Nodes |-> Running]
    /\ stderr = <<>>
    /\ did = [n \in Nodes |-> {}]
    /\ input = <<>>
    /\ output = <<>>

NextMain == main \/ \E n \in Nodes : readFile(n) \/ Add(n)

SpecMain == InitMain /\ [][NextMain]_vars

(***************************************************************************)
(* SpecFilters: one call of isFileHidden or of isFileIncluded, on a name   *)
(* of up to MaxNameLen characters or one of the names of TestIsFileHidden  *)
(* and TestIsFileIncluded, with up to two suffixes in each of extensions    *)
(* and extensionsToIgnore.  Nothing else runs.                             *)
(***************************************************************************)
MaxNameLen == 4

RECURSIVE Strings(_, _)
Strings(alphabet, n) ==
    IF n = 0
    THEN {<<>>}
    ELSE Strings(alphabet, n - 1) \cup
         {Append(str, c) : str \in {t \in Strings(alphabet, n - 1) : Len(t) = n - 1},
                           c \in alphabet}

TestNames ==
    { <<"m", "a", "i", "n", ".", "g", "o">>,
      <<"s", "r", "c">>,
      <<".", "/", "s", "r", "c">>,
      <<".", "g", "i", "t">>,
      <<".", "/", ".", "g", "i", "t">>,
      <<".", "e", "n", "v">>,
      <<"n", "o", "d", "e", "_", "m", "o", "d", "u", "l", "e", "s">>,
      <<".", "/", "n", "o", "d", "e", "_", "m", "o", "d", "u", "l", "e", "s">>,
      <<"m", "a", "i", "n", ".", "p", "y">> }

Names == Strings({".", "/", "g", "o"}, MaxNameLen) \cup TestNames

Suffixes == { <<"g", "o">>, <<".", "g", "o">>, <<"o">>, <<"p", "y">> }

SuffixLists ==
    {<<>>} \cup {<<x>> : x \in Suffixes}
           \cup {<<x, y>> : x \in Suffixes, y \in Suffixes \ {<<"p", "y">>}}

\* Nothing of the registry, of the walk or of main is running.
Idle ==
    /\ maxLength = 0
    /\ Entropies = NewEntropies(0)
    /\ mu = 0
    /\ lastWrites = <<ZeroEntropy.Entropy>>
    /\ panicked = FALSE
    /\ pc = [n \in Nodes |-> "idle"]
    /\ e = [n \in Nodes |-> ZeroEntropy]
    /\ i = [n \in Nodes |-> 0]
    /\ j = [n \in Nodes |-> 0]
    /\ floor = [n \in Nodes |-> 1]
    /\ queue = <<>>
    /\ offered = EmptyBag
    /\ fault = [n \in Nodes |-> "none"]
    /\ exploreHidden = FALSE
    /\ minCharacters = 1
    /\ includeBinaryFiles = FALSE
    /\ discrete = FALSE
    /\ wg = [n \in Nodes |-> 0]
    /\ k = [n \in Nodes |-> 0]
    /\ lineNum = [n \in Nodes |-> 0]
    /\ field = [n \in Nodes |-> 0]
    /\ ret = [n \in Nodes |-> Running]
    /\ stderr = <<>>
    /\ did = [n \in Nodes |-> {}]
    /\ fileNames = <<>>
    /\ arg = 1
    /\ stdout = <<>>
    /\ locked = <<>>

\* output is <<>> before the call, then <<function, value returned>>.
CallIsFileHidden ==
    /\ output = <<>>
    /\ output' = <<"isFileHidden", isFileHidden(input)>>
    /\ UNCHANGED <<Entropies, mu, lastWrites, panicked, pc, e, i, j, floor,
                   queue, offered, cfgVars, walkVars, mainVars, input, locked>>

CallIsFileIncluded ==
    /\ output = <<>>
    /\ output' = <<"isFileIncluded", isFileIncluded(input)>>
    /\ UNCHANGED <<Entropies, mu, lastWrites, panicked, pc, e, i, j, floor,
                   queue, offered, cfgVars, walkVars, mainVars, input, locked>>

InitFilters ==
    /\ Idle
    /\ input \in Names
    /\ output = <<>>
    /\ extensions \in SuffixLists
    /\ extensionsToIgnore \in SuffixLists

NextFilters == CallIsFileHidden \/ CallIsFileIncluded

SpecFilters == InitFilters /\ [][NextFilters]_vars

(***************************************************************************)
(* SpecEntropy: entropy is called on a token and then on a permutation of  *)
(* it (which may be the token itself).  The tokens have up to MaxTokenLen  *)
(* code points among a, b, c and the two-byte U+00E9, or are the tokens of *)
(* TestEntropy.  Nothing else runs.                                        *)
(***************************************************************************)
MaxTokenLen == 6

TestTokens ==
    { <<>>,
      <<"a">>,
      <<"a", "b", "c">>,
      <<"a", "b", "c", "d">>,
      <<"a", "a", "b", "b">>,
      <<"a", "a", "b", "b", "c", "c", "d", "d", "e", "e", "f", "f">> }

Tokens == Strings({"a", "b", "c", "U+00E9"}, MaxTokenLen) \cup TestTokens

\* The token with its first two code points exchanged, and the token with
\* its first code point moved to the end: every permutation of a token is
\* reached by repeating these two.
SwapFirstTwo(str) ==
    IF Len(str) < 2 THEN str ELSE <<str[2], str[1]>> \o Tail(Tail(str))

Rotate(str) == IF Len(str) < 2 THEN str ELSE Append(Tail(str), Head(str))

\* input is <<token, permutation>>; output is the sequence of the values
\* returned so far.  The loop of lines 230-237 ranges over a map, in any
\* order of its keys.
CallEntropy ==
    /\ Len(output) < Len(input)
    /\ LET text == input[Len(output) + 1]
       IN  \E order \in Orders(DOMAIN UniqueCharacters(text)) :
               output' = Append(output, entropyFloat64(text, order))
    /\ UNCHANGED <<Entropies, mu, lastWrites, panicked, pc, e, i, j, floor,
                   queue, offered, cfgVars, walkVars, mainVars, input, locked>>

InitEntropy ==
    /\ Idle
    /\ extensions = <<>>
    /\ extensionsToIgnore = <<>>
    /\ \E str \in Tokens :
           input \in {<<str, str>>, <<str, SwapFirstTwo(str)>>, <<str, Rotate(str)>>}
    /\ output = <<>>

NextEntropy == CallEntropy

SpecEntropy == InitEntropy /\ [][NextEntropy]_vars

(***************************************************************************)
(* SpecAdd: a registry of capacity 0..MaxK and NCallers concurrent callers.*)
(***************************************************************************)
\* One goroutine per value, as in the asynchronous test.
Queues == {<<s>> : s \in Scores}

InitAdd ==
    /\ maxLength \in 0..MaxK
    /\ Entropies = NewEntropies(maxLength)
    /\ mu = 0
    /\ lastWrites = <<ZeroEntropy.Entropy>>
    /\ panicked = FALSE
    /\ queue \in [Callers -> Queues]
    /\ pc = [p \in Callers |-> "call"]
    /\ e = [p \in Callers |-> ZeroEntropy]
    /\ i = [p \in Callers |-> 0]
    /\ j = [p \in Callers |-> 0]
    /\ floor = [p \in Callers |-> 1]
    /\ offered = EmptyBag
    /\ fault = [n \in Nodes |-> "none"]
    /\ exploreHidden = FALSE
    /\ extensions = <<>>
    /\ extensionsToIgnore = <<>>
    /\ minCharacters = 1
    /\ includeBinaryFiles = FALSE
    /\ wg = [n \in Nodes |-> 0]
    /\ k = [n \in Nodes |-> 0]
    /\ lineNum = [n \in Nodes |-> 0]
    /\ field = [n \in Nodes |-> 0]
    /\ ret = [n \in Nodes |-> Running]
    /\ stderr = <<>>
    /\ did = [n \in Nodes |-> {}]
    /\ discrete = FALSE
    /\ fileNames = <<>>
    /\ arg = 1
    /\ stdout = <<>>
    /\ locked = <<>>
    /\ input = <<>>
    /\ output = <<>>

NextAdd == \E p \in Callers : CallAdd(p) \/ Add(p) \/ AddReturned(p)

SpecAdd == InitAdd /\ [][NextAdd]_vars

(***************************************************************************)
(* The Add of src/main.go, which always takes the lock and looks for the   *)
(* index with a linear scan.  Nothing else runs while it holds the lock:   *)
(* it is one step.                                                         *)
(***************************************************************************)
\* main.go lines 58-60: for j := len(entropies) - 1; j > i; j-- {
\*     entropies[j] = entropies[j-1] }
ShiftLoopWithoutShift(es, x, y) == es

RECURSIVE ShiftLoop(_, _, _)
ShiftLoop(es, x, y) ==
    IF y > x
    THEN ShiftLoop([es EXCEPT ![y + 1] = es[y]], x, y - 1)
    ELSE es

\* main.go lines 56-64: the loop over the slots, from index x on
RECURSIVE LinearScan(_, _, _)
LinearScan(es, f, x) ==
    IF x < Len(es)
    THEN IF es[x + 1].Entropy < f.Entropy
         THEN [ShiftLoop(es, x, Len(es) - 1) EXCEPT ![x + 1] = f]
         ELSE LinearScan(es, f, x + 1)
    ELSE es

\* main.go lines 47-65
AddLinearScan(es, f) ==
    IF es[Len(es)].Entropy >= f.Entropy
    THEN es
    ELSE LinearScan(es, f, 0)

(***************************************************************************)
(* SpecBoth: one goroutine offers a sequence of up to MaxOffers findings   *)
(* to a registry of capacity 1..MaxK with the Add of part_000, and offers  *)
(* each of them to a second registry of the same capacity, output, with    *)
(* the Add of main.go.                                                     *)
(***************************************************************************)
MaxOffers == 4

Offers == Strings(Scores, MaxOffers)

CallBoth(p) ==
    /\ ~panicked
    /\ pc[p] = "call"
    /\ queue[p] # <<>>
    /\ e' = [e EXCEPT ![p] = Entropy(Head(queue[p]), Len(queue[p]), 0, <<>>)]
    /\ offered' = offered (+) SetToBag({e'[p]})
    /\ queue' = [queue EXCEPT ![p] = Tail(queue[p])]
    /\ pc' = [pc EXCEPT ![p] = "Add"]
    /\ output' = AddLinearScan(output, e'[p])
    /\ UNCHANGED <<Entropies, mu, lastWrites, panicked, i, j, floor, cfgVars,
                   mainVars, input, locked, walkVars>>

InitBoth ==
    /\ maxLength \in 1..MaxK
    /\ Entropies = NewEntropies(maxLength)
    /\ output = NewEntropies(maxLength)
    /\ mu = 0
    /\ lastWrites = <<ZeroEntropy.Entropy>>
    /\ panicked = FALSE
    /\ queue \in [{1} -> Offers]
    /\ pc = [p \in {1} |-> "call"]
    /\ e = [p \in {1} |-> ZeroEntropy]
    /\ i = [p \in {1} |-> 0]
    /\ j = [p \in {1} |-> 0]
    /\ floor = [p \in {1} |-> 1]
    /\ offered = EmptyBag
    /\ fault = [n \in Nodes |-> "none"]
    /\ exploreHidden = FALSE
    /\ extensions = <<>>
    /\ extensionsToIgnore = <<>>
    /\ minCharacters = 1
    /\ includeBinaryFiles = FALSE
    /\ wg = [n \in Nodes |-> 0]
    /\ k = [n \in Nodes |-> 0]
    /\ lineNum = [n \in Nodes |-> 0]
    /\ field = [n \in Nodes |-> 0]
    /\ ret = [n \in Nodes |-> Running]
    /\ stderr = <<>>
    /\ did = [n \in Nodes |-> {}]
    /\ discrete = FALSE
    /\ fileNames = <<>>
    /\ arg = 1
    /\ stdout = <<>>
    /\ locked = <<>>
    /\ input = <<>>

NextBoth == CallBoth(1) \/ Add(1) \/ AddReturned(1)

SpecBoth == InitBoth /\ [][NextBoth]_vars


(***************************************************************************)
(* Definitions the properties use.                                         *)
(***************************************************************************)
ScoresOf(es) == [s \in 1..Len(es) |-> es[s].Entropy]

AllAddsReturned == \A p \in DOMAIN pc : pc[p] = "done"

NoAddInExclusiveSection == mu = 0

\* The scores of a bag of findings, highest first.
RECURSIVE SortedScores(_)
SortedScores(B) ==
    IF BagToSet(B) = {}
    THEN <<>>
    ELSE LET f == CHOOSE f \in BagToSet(B) :
                      \A g \in BagToSet(B) : f.Entropy >= g.Entropy
         IN  <<f.Entropy>> \o SortedScores(B (-) SetToBag({f}))

\* The sequential reference: sort the findings offered, together with the n
\* zero values the registry is created with, and keep the n first.
SortThenTruncate(B, n) ==
    SubSeq(SortedScores(B) \o [s \in 1..n |-> ZeroEntropy.Entropy], 1, n)

(***************************************************************************)
(* C1: once every Add call has returned, whatever the interleaving of the  *)
(* callers, the scores held in the slots are the maxLength highest scores  *)
(* of the findings offered, highest first: what sorting the same findings  *)
(* and truncating gives.                                                   *)
(***************************************************************************)
C1_AddRefinesSortThenTruncate ==
    AllAddsReturned => ScoresOf(Entropies) = SortThenTruncate(offered, maxLength)

\* Every caller has returned, one finding was dropped for a higher one, and
\* the last slot was written more than once.
C1_Witness ==
    /\ AllAddsReturned
    /\ maxLength = 2
    /\ BagCardinality(offered) > maxLength
    /\ Len(lastWrites) > 2
    /\ Entropies[2].Entropy > 0
    /\ \E f \in BagToSet(offered) : f.Entropy > 0 /\ f.Entropy < Entropies[2].Entropy

(***************************************************************************)
(* C2: whenever no caller is inside the exclusive section of Add, the      *)
(* slots are in descending order of score.                                 *)
(***************************************************************************)
C2_DescendingOutsideExclusiveSection ==
    NoAddInExclusiveSection =>
        \A s \in 1..(Len(Entropies) - 1) :
            Entropies[s].Entropy >= Entropies[s + 1].Entropy

\* A finding was inserted in front of a retained one, and nobody holds the lock.
C2_Witness ==
    /\ NoAddInExclusiveSection
    /\ Len(Entropies) = 2
    /\ Entropies[1].Entropy > Entropies[2].Entropy
    /\ Entropies[2].Entropy > 0
    /\ Entropies[1].File > Entropies[2].File
    /\ \E p \in DOMAIN pc : pc[p] = "Lock"

(***************************************************************************)
(* C3: the registry has exactly maxLength slots, from NewEntropies on and  *)
(* across every step of every Add call.                                    *)
(***************************************************************************)
C3_LengthIsFixed == Len(Entropies) = maxLength

\* An Add call was admitted and shifted the slots, another was rejected.
C3_Witness ==
    /\ AllAddsReturned
    /\ Len(Entropies) = 2
    /\ Entropies[2].Entropy > 0
    /\ \E f \in BagToSet(offered) :
           \A s \in 1..Len(Entropies) : Entropies[s] # f

(***************************************************************************)
(* C6: with capacity 0 every Add call is a no-op: it returns normally and  *)
(* leaves the empty registry as it is.                                     *)
(***************************************************************************)
C6_AddOnZeroCapacityIsNoOp ==
    maxLength = 0 =>
        /\ ~panicked
        /\ \A p \in DOMAIN pc : pc[p] # "panic"
        /\ Entropies = <<>>


(***************************************************************************)
(* The walk the file system and the options call for.                      *)
(***************************************************************************)
\* The entries whose name starts with a dot, "." itself excepted.
HiddenPaths == {n \in Nodes : Name(n) # <<".">> /\ Head(Name(n)) = "."}

\* The readFile call on n gets past os.Stat and the two filters.
Passes(n) ==
    /\ fault[n] # "stat"
    /\ ~(n \in HiddenPaths /\ ~exploreHidden)
    /\ isFileIncluded(Name(n))

\* A readFile call is made on n.
RECURSIVE Called(_)
Called(n) ==
    \/ n \in SeqRange(fileNames)
    \/ /\ n # Root
       /\ Called(Parent(n))
       /\ Passes(Parent(n))
       /\ fault[Parent(n)] # "list"

\* n is a file the walk reads: reachable, not pruned, readable.
IsRead(n) == ~IsDir(n) /\ Called(n) /\ Passes(n) /\ fault[n] # "open"

\* Line l of file n is one that the Scanner yields.
Scanned(n, l) == \A x \in 1..l : ~Lines(n)[x].long

\* The qualifying tokens: <<file, line number, position in the line>>.
QualifyingTokens ==
    {t \in UNION {{<<n, l, x>> : l \in 1..Len(Lines(n)), x \in 1..2} : n \in Nodes} :
        /\ IsRead(t[1])
        /\ includeBinaryFiles \/ Lines(t[1])[1].valid
        /\ Scanned(t[1], t[2])
        /\ t[3] <= Len(Lines(t[1])[t[2]].fields)
        /\ ByteLen(Lines(t[1])[t[2]].fields[t[3]]) >= minCharacters}

FindingOf(t) ==
    LET text == Lines(t[1])[t[2]].fields[t[3]]
    IN  Entropy(entropy(text), t[1], t[2], text)

\* The bag of the findings of the qualifying tokens.
QualifyingFindings ==
    [f \in {FindingOf(t) : t \in QualifyingTokens} |->
        Cardinality({t \in QualifyingTokens : FindingOf(t) = f})]

RootReturned == ret[Root].kind # "running"

InAdd(n) == pc[n] \in {"Add", "Lock", "Recheck", "Copy", "AddReturn"}

\* Nothing of path n has reached the registry, and no Add call on it is under way.
NothingFrom(n) ==
    /\ \A f \in BagToSet(offered) : f.File # n
    /\ \A s \in 1..Len(Entropies) : Entropies[s].File # n
    /\ ~InAdd(n)
    /\ "add" \notin did[n]

\* No readFile call was ever started below n.
NothingBelow(n) ==
    \A d \in Descendants(n) : pc[d] = "idle" /\ did[d] = {} /\ NothingFrom(d)

(***************************************************************************)
(* C4: a readFile call returns only after every goroutine it started, and  *)
(* every goroutine started below it, has ended; when the call on the root  *)
(* has returned, no goroutine of the walk is running, no Add call is under *)
(* way and nothing can happen any more.                                    *)
(***************************************************************************)
C4_ReturnsAfterAllChildren ==
    /\ \A n \in Nodes :
           ret[n].kind # "running" =>
               \A d \in Descendants(n) : pc[d] \in {"idle", "done"}
    /\ RootReturned =>
           /\ \A n \in Nodes \ {Root} : pc[n] \in {"idle", "done"}
           /\ mu = 0
           /\ \A n \in Nodes : wg[n] = 0
           /\ ~ENABLED Next

\* The walk went two levels down, three files offered findings, and the
\* call on the root has returned.
C4_Witness ==
    /\ ret[Root] = Nil
    /\ \A n \in {2, 4, 5} : "add" \in did[n]
    /\ pc[3] = "done"

\* The error of an entry of n was printed, and the other entries of n ran to
\* their end and offered their findings.
SiblingsUnaffected(n) ==
    \A c \in SeqRange(Dir(n)) :
        ret[c].kind = "err" =>
            /\ \E x \in 1..Len(stderr) : stderr[x] = ret[c]
            /\ \A s \in SeqRange(Dir(n)) \ {c} :
                   /\ pc[s] = "done"
                   /\ \A t \in QualifyingTokens :
                          t[1] \in Subtree(s) => BagIn(FindingOf(t), offered)

Retained == {s \in 1..Len(Entropies) : Entropies[s] # ZeroEntropy}

Min(a, b) == IF a <= b THEN a ELSE b

(***************************************************************************)
(* C7: when the call on the root has returned, the registry holds the      *)
(* maxLength highest-scoring findings among the qualifying tokens of the   *)
(* files that are readable and not pruned, whatever path failed; it is     *)
(* full when there are at least maxLength qualifying tokens.               *)
(***************************************************************************)
C7_RegistryHoldsTopFindings ==
    RootReturned =>
        /\ offered = QualifyingFindings
        /\ ScoresOf(Entropies) = SortThenTruncate(QualifyingFindings, maxLength)
        /\ \A s \in Retained :
               /\ BagIn(Entropies[s], QualifyingFindings)
               /\ Cardinality({x \in Retained : Entropies[x] = Entropies[s]})
                      <= CopiesIn(Entropies[s], QualifyingFindings)
        /\ Cardinality(Retained) = Min(maxLength, BagCardinality(QualifyingFindings))

\* What the code does guarantee: the same, for the findings of score > 0.
PositiveFindings ==
    [f \in {g \in BagToSet(QualifyingFindings) : g.Entropy > 0} |->
        CopiesIn(f, QualifyingFindings)]

RegistryHoldsTopPositiveFindings ==
    RootReturned =>
        /\ offered = QualifyingFindings
        /\ ScoresOf(Entropies) = SortThenTruncate(QualifyingFindings, maxLength)
        /\ \A s \in Retained :
               /\ BagIn(Entropies[s], PositiveFindings)
               /\ Cardinality({x \in Retained : Entropies[x] = Entropies[s]})
                      <= CopiesIn(Entropies[s], PositiveFindings)
        /\ Cardinality(Retained) = Min(maxLength, BagCardinality(PositiveFindings))

(***************************************************************************)
(* C8: with exploreHidden false, the call on a hidden entry returns nil    *)
(* and does nothing but the Stat: no ReadDir, no goroutine, no Open, no    *)
(* Add; nothing of the entry or of what is below it reaches the registry.  *)
(***************************************************************************)
C8_HiddenEntryIsPruned ==
    ~exploreHidden =>
        \A n \in HiddenPaths :
            /\ did[n] \subseteq {"stat"}
            /\ fault[n] # "stat" => ret[n] \in {Running, Nil}
            /\ NothingFrom(n)
            /\ NothingBelow(n)

\* The call on ./.git has returned nil and the walk is over, with findings
\* of the other files in the registry.
C8_Witness ==
    /\ ~exploreHidden
    /\ ret[3] = Nil
    /\ pc[3] = "done"
    /\ ret[Root] = Nil
    /\ Retained # {}
    /\ isFileIncluded(Name(5))
    /\ fault[5] = "none"

(***************************************************************************)
(* C9: a directory whose name fails isFileIncluded and is not hidden is    *)
(* still walked: one goroutine is started per entry and the findings of    *)
(* the entries reach the registry.                                         *)
(***************************************************************************)
C9_ExcludedDirectoryIsWalked ==
    \A n \in Nodes :
        (/\ IsDir(n)
         /\ n \notin HiddenPaths
         /\ ~isFileIncluded(Name(n))
         /\ fault[n] = "none"
         /\ ret[n].kind # "running") =>
            /\ "list" \in did[n]
            /\ \A c \in SeqRange(Dir(n)) : pc[c] = "done"

(***************************************************************************)
(* C10: a path whose Stat fails makes readFile return that error, with no  *)
(* ReadDir, no goroutine, no Open and no Add; nothing of the path reaches  *)
(* the registry.  The same for a directory whose ReadDir fails and for a   *)
(* file whose Open fails.                                                  *)
(***************************************************************************)
C10_FailedPathContributesNothing ==
    \A n \in Nodes :
        /\ fault[n] = "stat" =>
               /\ did[n] \subseteq {"stat"}
               /\ "stat" \in did[n] => ret[n] = Err("stat", n)
               /\ NothingFrom(n)
               /\ NothingBelow(n)
        /\ fault[n] = "list" =>
               /\ did[n] \subseteq {"stat", "list"}
               /\ "list" \in did[n] => ret[n] = Err("list", n)
               /\ NothingFrom(n)
               /\ NothingBelow(n)
        /\ (fault[n] = "open" /\ ~IsDir(n)) =>
               /\ did[n] \subseteq {"stat", "open"}
               /\ "open" \in did[n] => ret[n] = Err("open", n)
               /\ NothingFrom(n)

\* The Stat of ./b.js failed and the call returned the error; the walk is
\* over and the registry holds findings of ./a.go only.
C10_Witness ==
    /\ fault[4] = "stat"
    /\ ret[4] = Err("stat", 4)
    /\ RootReturned
    /\ Retained # {}
    /\ \A s \in Retained : Entropies[s].File = 2


(***************************************************************************)
(* The files the walk has opened and finished with.                        *)
(***************************************************************************)
Files == {n \in Nodes : ~IsDir(n)}

WasScanned(n) ==
    /\ "open" \in did[n]
    /\ fault[n] # "open"
    /\ ret[n].kind # "running"

\* The tokens of line l of file n the options call for:
\* <<file, line number, position in the line>>.
TokensOfLine(n, l) ==
    {<<n, l, x>> : x \in {y \in 1..Len(Lines(n)[l].fields) :
                              ByteLen(Lines(n)[l].fields[y]) >= minCharacters}}

\* The finding of token t was passed to Add, once.
OfferedOnce(t) ==
    /\ BagIn(FindingOf(t), offered)
    /\ CopiesIn(FindingOf(t), offered) =
           Cardinality({u \in TokensOfLine(t[1], t[2]) : FindingOf(u) = FindingOf(t)})

(***************************************************************************)
(* C11: with includeBinaryFiles false, a file whose first line is not      *)
(* valid UTF-8 is left at that line: nothing of it is offered, from the    *)
(* first line or from a later one, and readFile returns nil.  With         *)
(* includeBinaryFiles true the same file is scanned like any other, every  *)
(* line to the last.  The check is made on line 1 only: a line that is not *)
(* valid UTF-8 after line 1 is scanned and the scan goes on.               *)
(***************************************************************************)
C11_BinaryFileIsSkipped ==
    \A n \in Files :
        WasScanned(n) =>
            /\ ret[n] = Nil
            /\ IF ~includeBinaryFiles /\ ~Lines(n)[1].valid
               THEN /\ lineNum[n] = 1
                    /\ NothingFrom(n)
               ELSE \A l \in 1..Len(Lines(n)) :
                        Scanned(n, l) =>
                            /\ lineNum[n] >= l
                            /\ \A t \in TokensOfLine(n, l) : OfferedOnce(t)

\* With -binary, ./.git/k.go was scanned to its last line, and ./a.go was
\* scanned past its second line, which is not valid UTF-8.
C11_WitnessIncluded ==
    /\ includeBinaryFiles
    /\ WasScanned(5)
    /\ lineNum[5] = 2
    /\ \E f \in BagToSet(offered) : f.File = 5 /\ f.LineNum = 2
    /\ WasScanned(2)
    /\ \E f \in BagToSet(offered) : f.File = 2 /\ f.LineNum = 2

\* Without -binary, ./.git/k.go was opened and left at its first line.
C11_Witness ==
    /\ ~includeBinaryFiles
    /\ WasScanned(5)
    /\ WasScanned(2)
    /\ \E f \in BagToSet(offered) : f.File = 2 /\ f.LineNum = 2

\* The file n is one that readFile reads: opened, and not left at its first
\* line as a binary file.
ReadsLines(n) == WasScanned(n) /\ (includeBinaryFiles \/ Lines(n)[1].valid)

\* Every finding passed to Add is the finding of a token long enough.
OnlyQualifyingTokensOffered ==
    \A f \in BagToSet(offered) :
        /\ ByteLen(f.Line) >= minCharacters
        /\ f.File \in Files
        /\ f.LineNum \in 1..Len(Lines(f.File))
        /\ \E t \in TokensOfLine(f.File, f.LineNum) : FindingOf(t) = f
        /\ f.Entropy = entropy(f.Line)

(***************************************************************************)
(* C12: when readFile has read a file, every token of every line of the    *)
(* file that is at least minCharacters long was passed to Add exactly      *)
(* once, as a finding with the path, the token, its entropy and the number *)
(* of its line, counted from 1; no shorter token was passed.               *)
(***************************************************************************)
C12_EveryTokenIsOfferedOnce ==
    /\ OnlyQualifyingTokensOffered
    /\ \A n \in Files :
           ReadsLines(n) =>
               \A l \in 1..Len(Lines(n)) :
                   \A t \in TokensOfLine(n, l) : OfferedOnce(t)

\* What holds of the lines up to the first one too long for the Scanner.
EveryScannedTokenIsOfferedOnce ==
    /\ OnlyQualifyingTokensOffered
    /\ \A n \in Files :
           ReadsLines(n) =>
               /\ \A l \in 1..Len(Lines(n)) :
                      Scanned(n, l) => \A t \in TokensOfLine(n, l) : OfferedOnce(t)
               /\ \A f \in BagToSet(offered) : f.File = n => Scanned(n, f.LineNum)

(***************************************************************************)
(* main has printed and is about to return.                                *)
(***************************************************************************)
MainExited == pc[Main] = "exit"

\* Every path of the command line was given to readFile, and the error of
\* each call that failed was printed.
EveryRootScanned ==
    \A x \in 1..Len(fileNames) :
        /\ "stat" \in did[fileNames[x]]
        /\ pc[fileNames[x]] = "done"
        /\ ret[fileNames[x]].kind = "err" =>
               \E y \in 1..Len(stderr) : stderr[y] = ret[fileNames[x]]

\* The first n scores of the bag of findings B, highest first.
TopScores(B, n) == SubSeq(SortedScores(B), 1, Min(n, BagCardinality(B)))

\* The lines printed are findings of bag B, none more often than B holds it.
PrintedFrom(B) ==
    \A x \in 1..Len(stdout) :
        \E f \in BagToSet(B) :
            /\ stdout[x] = (IF discrete THEN [f EXCEPT !.Line = <<>>] ELSE f)
            /\ Cardinality({y \in 1..Len(stdout) : stdout[y] = stdout[x]})
                   <= CopiesIn(f, B)

(***************************************************************************)
(* C13: in main, a path whose readFile call returns an error only gets a   *)
(* diagnostic: every other path of the command line is scanned, all of     *)
(* them feed the one registry, and what main prints is the maxLength       *)
(* highest-scoring findings of all the paths together.                     *)
(***************************************************************************)
C13_RootsShareOneRegistry ==
    MainExited =>
        /\ EveryRootScanned
        /\ offered = QualifyingFindings
        /\ PrintedFrom(QualifyingFindings)
        /\ ScoresOf(stdout) = TopScores(QualifyingFindings, maxLength)

\* What holds: the same, of the findings of score > 0.
MainPrintsTopPositiveFindings ==
    MainExited =>
        /\ EveryRootScanned
        /\ offered = QualifyingFindings
        /\ PrintedFrom(PositiveFindings)
        /\ ScoresOf(stdout) = TopScores(PositiveFindings, maxLength)

\* The first path failed, the second was scanned, and findings were printed.
MainWentOnAfterError ==
    /\ MainExited
    /\ Len(fileNames) = 2
    /\ ret[fileNames[1]].kind = "err"
    /\ stderr = <<ret[fileNames[1]]>>
    /\ Len(stdout) = 2

\* No Add call is under way: every caller is before or after its call.
NoAddUnderWay == \A p \in DOMAIN pc : ~InAdd(p) /\ pc[p] # "panic"

\* Finding f is in a slot of the registry.
Held(f) == \E s \in 1..Len(Entropies) : Entropies[s] = f

(***************************************************************************)
(* C14: the slots of a new registry hold a lowest-score marker, so that    *)
(* while fewer than maxLength findings have been offered, every finding    *)
(* offered is admitted whatever its score, 0 included, and is in a slot.   *)
(***************************************************************************)
C14_EmptySlotAdmitsAnyScore ==
    (NoAddUnderWay /\ BagCardinality(offered) < maxLength) =>
        \A f \in BagToSet(offered) : Held(f)

\* What holds: the same, of the findings of score > 0.
EmptySlotAdmitsPositiveScore ==
    (NoAddUnderWay /\ BagCardinality(offered) < maxLength) =>
        \A f \in BagToSet(offered) :
            /\ f.Entropy > ZeroEntropy.Entropy => Held(f)
            /\ f.Entropy = ZeroEntropy.Entropy => ~Held(f)

(***************************************************************************)
(* C19: when Add admits a finding, the index i it writes it at is the      *)
(* leftmost one whose score is strictly less than the finding's: every     *)
(* slot before i holds a score equal to or higher than the finding's, and  *)
(* the finding never goes in front of an entry with the same score.        *)
(***************************************************************************)
C19_InsertedAfterEqualScores ==
    \A p \in DOMAIN i :
        pc[p] = "Copy" =>
            /\ \A s \in 1..i[p] : Entropies[s].Entropy >= e[p].Entropy
            /\ Entropies[i[p] + 1].Entropy < e[p].Entropy

\* What holds: i is the leftmost index whose score is less than or equal to
\* the finding's, and the finding goes in front of the entries with the same
\* score.
InsertedBeforeEqualScores ==
    \A p \in DOMAIN i :
        pc[p] = "Copy" =>
            /\ \A s \in 1..i[p] : Entropies[s].Entropy > e[p].Entropy
            /\ Entropies[i[p] + 1].Entropy <= e[p].Entropy

\* The score of the last slot.
LastScore == Entropies[Len(Entropies)].Entropy

(***************************************************************************)
(* C20: Add checks the last slot again once it holds the lock: a caller    *)
(* that holds the lock while the last slot's score is >= the score it      *)
(* offers writes no slot, releases the lock and returns, even though its   *)
(* unlocked check let it through; and a slot is only ever written by the   *)
(* holder of the lock, after that second check.                            *)
(***************************************************************************)
C20_RecheckUnderLock ==
    [][ /\ \A p \in DOMAIN i :
               (/\ pc[p] = "Recheck"
                /\ LastScore >= e[p].Entropy
                /\ pc'[p] # pc[p]) =>
                   /\ Entropies' = Entropies
                   /\ pc'[p] = "AddReturn"
                   /\ mu' = 0
        /\ Entropies' # Entropies =>
               \E p \in DOMAIN i : mu = p /\ pc[p] = "Copy"
        /\ \A p \in DOMAIN i :
               (pc[p] = "Recheck" /\ pc'[p] = "Copy") =>
                   (mu = p /\ LastScore < e[p].Entropy) ]_vars

\* A caller got through the unlocked check, another filled the last slot
\* meanwhile, and the caller now holds the lock with a last slot that is no
\* longer below what it offers.
C20_Witness ==
    \E p \in DOMAIN i :
        /\ pc[p] = "Recheck"
        /\ mu = p
        /\ e[p].Entropy > ZeroEntropy.Entropy
        /\ LastScore >= e[p].Entropy
        /\ Len(lastWrites) > 1

\* The name with one leading "./" taken off, if it has one.
WithoutDotSlash(name) ==
    IF Len(name) >= 2 /\ name[1] = "." /\ name[2] = "/"
    THEN [x \in 1..(Len(name) - 2) |-> name[x + 2]]
    ELSE name

\* The names the tests and the description give, with the value expected.
HiddenExamples ==
    { << <<".">>, FALSE >>,
      << <<"m", "a", "i", "n", ".", "g", "o">>, FALSE >>,
      << <<"s", "r", "c">>, FALSE >>,
      << <<".", "/", "s", "r", "c">>, FALSE >>,
      << <<".", "g", "i", "t">>, TRUE >>,
      << <<".", "/", ".", "g", "i", "t">>, TRUE >>,
      << <<".", "e", "n", "v">>, TRUE >>,
      << <<"n", "o", "d", "e", "_", "m", "o", "d", "u", "l", "e", "s">>, TRUE >> }

(***************************************************************************)
(* C15: isFileHidden(name) is false for ".", and otherwise true exactly    *)
(* when the name, one leading "./" taken off, starts with "." or is        *)
(* "node_modules".                                                         *)
(***************************************************************************)
C15_isFileHidden ==
    (output # <<>> /\ output[1] = "isFileHidden") =>
        /\ output[2] =
               (/\ input # <<".">>
                /\ LET name == WithoutDotSlash(input)
                   IN  \/ (name # <<>> /\ name[1] = ".")
                       \/ name = <<"n", "o", "d", "e", "_", "m", "o", "d", "u", "l", "e", "s">>)
        /\ \A ex \in HiddenExamples : input = ex[1] => output[2] = ex[2]

\* isFileHidden("./.git") returned true.
C15_Witness ==
    /\ input = <<".", "/", ".", "g", "i", "t">>
    /\ output = <<"isFileHidden", TRUE>>

\* name ends with suffix
EndsWith(name, suffix) ==
    \E x \in 0..Len(name) :
        /\ Len(name) - x = Len(suffix)
        /\ \A y \in 1..Len(suffix) : name[x + y] = suffix[y]

(***************************************************************************)
(* C16: isFileIncluded(name) is false when the name ends with a suffix of  *)
(* extensionsToIgnore, whatever extensions holds; otherwise it is true     *)
(* when extensions is empty, and when it is not, true exactly when the     *)
(* name ends with a suffix of extensions.  With both lists empty every     *)
(* name is included.                                                       *)
(***************************************************************************)
C16_isFileIncluded ==
    (output # <<>> /\ output[1] = "isFileIncluded") =>
        LET denied == \E x \in 1..Len(extensionsToIgnore) :
                          EndsWith(input, extensionsToIgnore[x])
            allowed == \E x \in 1..Len(extensions) : EndsWith(input, extensions[x])
        IN  /\ denied => output[2] = FALSE
            /\ (~denied /\ extensions = <<>>) => output[2] = TRUE
            /\ (~denied /\ extensions # <<>>) => output[2] = allowed
            /\ (extensions = <<>> /\ extensionsToIgnore = <<>>) => output[2] = TRUE

\* main.go, which ends with the allowed suffix "go" and with the ignored
\* suffix ".go", was refused.
C16_Witness ==
    /\ output = <<"isFileIncluded", FALSE>>
    /\ input = <<"m", "a", "i", "n", ".", "g", "o">>
    /\ extensions = << <<"g", "o">> >>
    /\ extensionsToIgnore = << <<".", "g", "o">> >>

(***************************************************************************)
(* The value of entropy (SpecEntropy).                                     *)
(***************************************************************************)
\* Both calls have returned.
BothReturned == Len(output) = 2

\* The text has one distinct code point, or none.
OneCodePoint(text) == Cardinality(SeqRange(text)) <= 1

\* C17: entropy("") is 0.0, and entropy of a token made of one code point
\* repeated any number of times, ASCII or not, is 0.0.
C17_OneCodePointScoresZero ==
    \A x \in 1..Len(output) : OneCodePoint(input[x]) => output[x] = <<0, 0>>

\* What the code does: the count of a code point is divided by the number of
\* BYTES of the token, so that only a token of one-byte code points has a
\* relative frequency of 1; U+00E9 alone has 1/2 and scores 0.5.
OneAsciiCodePointScoresZero ==
    \A x \in 1..Len(output) :
        /\ (OneCodePoint(input[x]) /\ ByteLen(input[x]) = Len(input[x]))
               => output[x] = <<0, 0>>
        /\ (OneCodePoint(input[x]) /\ ByteLen(input[x]) > Len(input[x]))
               => output[x] = <<2^27, 0>>

\* entropy has returned 0.5 for a token made of U+00E9 only.
OneWideCodePointScored ==
    /\ Len(output) >= 1
    /\ input[1] = <<"U+00E9", "U+00E9">>
    /\ output[1] = <<2^27, 0>>

\* C18: for every token s and every permutation t of its code points,
\* entropy(s) equals entropy(t).
C18_PermutationScoresEqual == BothReturned => output[1] = output[2]

\* What the code does: the terms are added in the order of a map iteration,
\* and float64 addition is not associative, so the two values may differ in
\* the last bit; they are the same to 1/10000 bit, and the very same when
\* the token has at most two distinct code points.
PermutationScoresAgree ==
    BothReturned =>
        /\ ToScore(output[1]) = ToScore(output[2])
        /\ Cardinality(SeqRange(input[1])) <= 2 => output[1] = output[2]

\* entropy("aaabbc") and entropy("aabbca") have returned different values.
PermutationScoredDifferently ==
    /\ BothReturned
    /\ input = << <<"a", "a", "a", "b", "b", "c">>,
                  <<"a", "a", "b", "b", "c", "a">> >>
    /\ output[1] # output[2]

\* The score the walk passes to the registry is the float64 value to the
\* nearest 1/10000 bit, but for the rounding of each term.
WalkScoreIsTheFloat64Score ==
    \A x \in 1..Len(output) :
        LET d == entropy(input[x]) - ToScore(output[x])
        IN  -Cardinality(SeqRange(input[x])) <= d * 2
                /\ d * 2 <= Cardinality(SeqRange(input[x]))

\* The values TestEntropy expects.
TestEntropyValues ==
    \A x \in 1..Len(output) :
        /\ input[x] = <<>> => output[x] = <<0, 0>>
        /\ input[x] = <<"a">> => output[x] = <<0, 0>>
        /\ input[x] = <<"a", "b", "c", "d">> => output[x] = <<2^29, 0>>
        /\ input[x] = <<"a", "a", "b", "b">> => output[x] = <<2^28, 0>>
        /\ input[x] = <<"a", "b", "c">> => ToScore(output[x]) = 15850
        /\ Len(input[x]) = 12 => ToScore(output[x]) = 25850

(***************************************************************************)
(* The exclusive section of Add (SpecAdd).                                 *)
(***************************************************************************)
\* Caller p is between es.mu.Lock() and the deferred es.mu.Unlock().
InExclusiveSection(p) == pc[p] \in {"Recheck", "Copy"}

\* C21: at most one Add call at a time is between its lock acquisition and
\* its lock release, it is the holder of the mutex, and every step that
\* writes a slot of the registry is a step of that caller, in the shift or
\* the store.
C21_WritesAreByTheLockHolder ==
    [][ /\ \A p \in DOMAIN pc : InExclusiveSection(p) => mu = p
        /\ Entropies' # Entropies =>
               /\ mu \in DOMAIN pc
               /\ pc[mu] = "Copy"
               /\ \A p \in DOMAIN pc \ {mu} : pc'[p] = pc[p] ]_vars

\* One caller is shifting the slots while another one waits for the lock.
C21_Witness ==
    \E p, q \in DOMAIN pc :
        /\ p # q
        /\ mu = p
        /\ pc[p] = "Copy"
        /\ j[p] < Len(Entropies) - 1
        /\ pc[q] = "Lock"

(***************************************************************************)
(* The lock and the work of the walk (Spec).                               *)
(***************************************************************************)
\* The step is one of the task on path n, outside Add: os.Stat, os.ReadDir,
\* os.Open (did), scanner.Scan (lineNum), the scoring of a token (e), a go
\* statement (k), the return of wg.Wait (from "range" to "Open") or a step
\* of the loop over the fields.
WorksOutsideAdd(n) ==
    \/ did'[n] # did[n]
    \/ lineNum'[n] # lineNum[n]
    \/ field'[n] # field[n]
    \/ e'[n] # e[n]
    \/ k'[n] # k[n]
    \/ pc[n] = "range" /\ pc'[n] = "Open"
    \/ pc[n] = "range" /\ k[n] > Len(Dir(n))

\* C22: the registry lock is never held by a task that stats, lists, opens
\* or reads a file, computes a score, spawns a child or waits at a join: the
\* holder of the lock is inside Add, at the re-check, the search, the shift
\* or the store, and the score it offers was computed before it entered Add
\* and does not change inside it.
C22_LockHeldOnlyInsideAdd ==
    [][ /\ mu # 0 => InExclusiveSection(mu)
        /\ \A n \in Nodes :
               /\ WorksOutsideAdd(n) => mu # n
               /\ e'[n] # e[n] => pc[n] = "Fields" /\ pc'[n] = "Add"
               /\ pc[n] = "Add" => e[n].Entropy = entropy(e[n].Line) ]_vars

\* One task shifts the slots under the lock while another one is reading
\* its file.
C22_Witness ==
    \E n, m \in Nodes :
        /\ n # m
        /\ mu = n
        /\ pc[n] = "Copy"
        /\ pc[m] \in {"Scan", "Fields"}
        /\ lineNum[m] >= 1

(***************************************************************************)
(* The unlocked check of Add (SpecAdd, where a caller offers one finding   *)
(* and e[p] keeps it after the call).                                      *)
(***************************************************************************)
\* The step is the return of caller p at line 64, on the unlocked check.
FastReject(p) == pc[p] = "Add" /\ pc'[p] = "AddReturn"

\* The call of p has returned and its finding is in no slot.
ReturnedAndNotHeld(p) == pc[p] \in {"AddReturn", "done"} /\ ~Held(e[p])

\* C23: when an Add call returns on the unlocked check, whatever value of
\* the last slot it read, the last slot's score is >= the offered score at
\* that moment (the re-check under the lock would have rejected the finding
\* too) and at every later moment: a finding that was rejected on the
\* unlocked check is never above the last slot.
C23_FastRejectDropsNothing ==
    [][ \A p \in DOMAIN i :
            /\ FastReject(p) =>
                   (LastScore >= e[p].Entropy /\ LastScore' >= e[p].Entropy)
            /\ (maxLength > 0 /\ ReturnedAndNotHeld(p)) =>
                   LastScore >= e[p].Entropy ]_vars

\* A caller has returned on the unlocked check with a finding of score > 0,
\* while another caller holds the lock: the registry has one slot, the
\* caller never took the lock (it would have found the slot at 0 and
\* stored its finding) and its score was never in the slot.
C23_Witness ==
    \E p \in DOMAIN i :
        /\ maxLength = 1
        /\ pc[p] = "AddReturn"
        /\ e[p].Entropy > ZeroEntropy.Entropy
        /\ floor[p] = 1
        /\ \A w \in 1..Len(lastWrites) : lastWrites[w] # e[p].Entropy
        /\ mu \notin {0, p}

(***************************************************************************)
(* The scores of the slots over time (SpecAdd).                            *)
(***************************************************************************)
\* C24: the score held in the last slot never decreases, the states inside
\* a shift included, and the same holds of the score at every index: each
\* step leaves every slot's score where it was or raises it, and each value
\* the last slot was given is >= the values it was given before.
C24_SlotScoresNeverDecrease ==
    [][ /\ \A s \in 1..Len(Entropies) :
               Entropies'[s].Entropy >= Entropies[s].Entropy
        /\ \A w \in 1..(Len(lastWrites') - 1) :
               lastWrites'[w] <= lastWrites'[w + 1] ]_vars

\* A caller is in the middle of a shift of a registry of two slots that
\* held two different scores: the last slot has just taken the score of the
\* first one, and this is the third value it holds.
C24_Witness ==
    \E p \in DOMAIN i :
        /\ pc[p] = "Copy"
        /\ Len(Entropies) = 2
        /\ i[p] = 0
        /\ j[p] = 0
        /\ Len(lastWrites) >= 3
        /\ lastWrites[Len(lastWrites) - 1] < lastWrites[Len(lastWrites)]
        /\ Entropies[1] = Entropies[2]

(***************************************************************************)
(* What one Add call changes (SpecAdd).  locked is the slot sequence as    *)
(* the caller found it when it took the lock.                              *)
(***************************************************************************)
\* The step is one of the Add call of caller p.
StepOfAdd(p) == InAdd(p) /\ pc'[p] # pc[p]

\* The step is the store of line 85 by caller p, which ends an admitted Add.
Admitted(p) == pc[p] = "Copy" /\ pc'[p] = "AddReturn"

\* C25: an Add call whose offered score is <= the last slot's score, a
\* score equal to the lowest retained one included, leaves every slot
\* unchanged; an admitted Add at index i leaves the slots before i as they
\* were, moves each former slot from i to the last but one to the next
\* index with its content intact, drops the former last slot and nothing
\* else, and puts the offered finding, as offered, at i.
C25_FrameOfAdd ==
    [][ \A p \in DOMAIN i :
            /\ (StepOfAdd(p) /\ pc[p] \in {"Add", "Lock", "Recheck"}
                             /\ pc'[p] # "panic"
                             /\ LastScore >= e[p].Entropy) =>
                   (Entropies' = Entropies /\ pc'[p] # "Copy")
            /\ (StepOfAdd(p) /\ pc'[p] = "AddReturn" /\ ~Admitted(p)) =>
                   (Entropies' = Entropies /\ LastScore >= e[p].Entropy)
            /\ Admitted(p) =>
                   /\ Len(Entropies') = Len(locked)
                   /\ \A s \in 1..i[p] : Entropies'[s] = locked[s]
                   /\ Entropies'[i[p] + 1] = e[p]
                   /\ \A s \in (i[p] + 1)..(Len(locked) - 1) :
                          Entropies'[s + 1] = locked[s]
                   /\ e[p] \in BagToSet(offered) ]_vars

\* An Add call is storing a finding in front of two findings of different
\* positive scores, which it has shifted; the last of them is dropped.
C25_Witness ==
    \E p \in DOMAIN i :
        /\ pc[p] = "Copy"
        /\ j[p] <= i[p]
        /\ i[p] = 0
        /\ Len(locked) = 2
        /\ locked[2].Entropy > ZeroEntropy.Entropy
        /\ locked[1] # locked[2]
        /\ Entropies[2] = locked[1]

\* An Add call that offers the score of the last slot has taken the lock.
RejectedOnEqualScore ==
    \E p \in DOMAIN i :
        /\ pc[p] = "Recheck"
        /\ LastScore = e[p].Entropy
        /\ LastScore > ZeroEntropy.Entropy

(***************************************************************************)
(* Termination of the walk (SpecFair).                                     *)
(***************************************************************************)
\* No task holds the lock or waits for it, every task that was started has
\* signalled its parent's wait group, also when its readFile call returned
\* an error, no directory is at its wg.Wait(), and the top-level readFile
\* call has returned.
WalkOver ==
    /\ mu = 0
    /\ \A n \in Nodes \ {Root} : pc[n] \in {"idle", "done"}
    /\ \A n \in Nodes : wg[n] = 0
    /\ pc[Root] = "returned"
    /\ RootReturned

WalkTerminates == <>WalkOver

\* C26: for every finite directory tree, under fair scheduling of the
\* tasks, every Add call eventually acquires the lock and releases it,
\* every child task eventually signals its parent's wait group, no parent
\* waits forever at its join, and the top-level readFile call returns.
C26_TopLevelCallReturns == WalkTerminates

\* What holds: the same when the capacity of the registry is not 0.  With
\* -top 0 the first Add call panics at line 63 and the process ends with
\* the walk unfinished.
WalkTerminatesWithCapacity == (maxLength > 0) => WalkTerminates

(***************************************************************************)
(* The two Add methods side by side (SpecBoth).                            *)
(***************************************************************************)
\* C27: for every capacity K >= 1 and every sequence of offered findings,
\* the registry of the Add of part_000 and the registry of the Add of
\* main.go, both all-zero at first, hold the same sequence of scores in
\* their K slots after each offer.
C27_SameScoresAfterEachOffer ==
    (\A p \in DOMAIN pc : pc[p] \in {"call", "done"}) =>
        /\ Len(output) = Len(Entropies)
        /\ ScoresOf(output) = ScoresOf(Entropies)

\* Three offers have been made to registries of two slots, two of them
\* with the same score, and the two registries hold the same scores but
\* not the same findings: the Add of main.go puts a finding after those of
\* the same score and the Add of part_000 puts it before them.
C27_Witness ==
    /\ \A p \in DOMAIN pc : pc[p] = "done"
    /\ Len(Entropies) = 2
    /\ BagCardinality(offered) >= 3
    /\ ScoresOf(output) = ScoresOf(Entropies)
    /\ output # Entropies
    /\ Entropies[2].Entropy > ZeroEntropy.Entropy

(***************************************************************************)
(* The empty slots and the print loop of main (SpecMain).                  *)
(***************************************************************************)
\* The slots from n + 1 on are zero values, and those up to n hold findings
\* that were offered, of a score above 0.
FilledUpTo(n) ==
    /\ \A s \in 1..n :
           /\ Entropies[s] \in BagToSet(offered)
           /\ Entropies[s].Entropy > ZeroEntropy.Entropy
    /\ \A s \in (n + 1)..Len(Entropies) : Entropies[s] = ZeroEntropy

\* What main prints of finding f.
PrintedOf(f) == IF discrete THEN [f EXCEPT !.Line = <<>>] ELSE f

\* C28: when no Add call is in progress, the zero-value slots of the
\* registry are a suffix of the slot sequence and every slot before them
\* holds an offered finding of a score strictly above 0; hence the print
\* loop of main, which stops at the first zero-value slot, prints every
\* retained finding, highest score first, and omits none.
C28_PrintLoopOmitsNothing ==
    NoAddUnderWay =>
        \E n \in 0..Len(Entropies) :
            /\ FilledUpTo(n)
            /\ MainExited =>
                   /\ Len(stdout) = n
                   /\ \A s \in 1..n : stdout[s] = PrintedOf(Entropies[s])
                   /\ \A s \in 1..(n - 1) :
                          stdout[s].Entropy >= stdout[s + 1].Entropy

\* main has printed the one finding of a registry of two slots, whose
\* second slot is still a zero value, although a token of score 0 was
\* offered too.
C28_Witness ==
    /\ MainExited
    /\ Len(Entropies) = 2
    /\ Len(stdout) = 1
    /\ Entropies[2] = ZeroEntropy
    /\ \E f \in BagToSet(offered) : f.Entropy = ZeroEntropy.Entropy

==========================================================================
